---- MODULE Spec2Model ----
(***************************************************************************)
(* Temporal state of a forecaster (sktime/forecasting/base.py):            *)
(* observation horizon, now, forecasting horizon and the rolling-origin    *)
(* update/predict loop.                                                    *)
(*                                                                         *)
(* Representation.  The code reads a series only through its index, its   *)
(* length and append, never through its values, so a series is the         *)
(* sequence of its timestamps.  Python's None is the empty sequence for a  *)
(* series or an fh (check_y and check_fh accept no empty value, so the two *)
(* never meet) and 0 for a timestamp (timestamps are positive).            *)
(***************************************************************************)
EXTENDS Integers, Sequences, FiniteSets, TLC

VARIABLES
    variant,      \* which _set_fh the instance has: "optional" | "required"
    oh,           \* self._oh
    now,          \* self._now
    is_fitted,    \* self._is_fitted
    fh,           \* self._fh
    last,         \* the last completed call: what was called and how it ended
    up,           \* the activation of update_predict (its locals and position)
    n_up,         \* how many rolling-origin evaluations have been started
    pi,           \* the last call of compute_pred_int: arguments and result
    fit_fh        \* required-in-fit: the fh handed to the fit that set the flag

vars == <<variant, oh, now, is_fitted, fh, last, up, n_up, pi, fit_fh>>

----------------------------------------------------------------------------
(* Bounds *)

MaxT == 3          \* timestamps of the series handed to fit / update are 1..MaxT
MaxOhLen == 3      \* longest observation horizon the model lets grow
MaxRunT == 5       \* timestamps of the rolling-origin runs are 1..MaxRunT
MaxFitLen == 2     \* longest training run before a rolling-origin evaluation
MaxWin == 2        \* largest window_length of a cv
MaxStep == 2       \* largest step_length of a cv
MaxCalls == 2      \* update_predict is called at most this many times
MaxErr == 1        \* the errors of a prediction interval are -MaxErr..MaxErr
MaxLevels == 2     \* most error series (confidence levels) in one call

Timestamps == 1..MaxT

NoneSeq == <<>>
NoneTime == 0

Range(s) == {s[i] : i \in DOMAIN s}
Max(a, b) == IF a >= b THEN a ELSE b
Min(a, b) == IF a <= b THEN a ELSE b

SeqsUpTo(S, n) == UNION {[1..k -> S] : k \in 0..n}

\* the series over the consecutive timestamps a..b (empty when b < a)
Run(a, b) == [i \in 1..(b - a + 1) |-> a + i - 1]

\* series handed to fit, update and _set_oh: the empty series, every series
\* with strictly increasing timestamps, one with a duplicated timestamp and
\* an unsorted one
SeriesInputs ==
    {y \in SeqsUpTo(Timestamps, MaxT) : \A i \in 1..(Len(y) - 1) : y[i] < y[i + 1]}
    \cup {<<1, 1>>, <<2, 1>>}

\* the arguments (y, X) of fit, update and _set_oh; an exogenous X is
\* refused whatever y is, so one y stands for all
SeriesArgs(Ys) ==
    [y : Ys, X : {FALSE}] \cup {[y |-> <<1>>, X |-> TRUE]}

\* fh arguments: None, the well-formed horizons and two ill-formed ones
FhValid == {<<1>>, <<2>>, <<1, 2>>}
FhInputs == {NoneSeq} \cup FhValid \cup {<<0>>, <<2, 1>>}

\* series a rolling-origin evaluation is fitted on: the runs 1..L
RunInputs == {Run(1, L) : L \in 1..MaxFitLen}

\* series handed to update_predict as y_test: every run of consecutive
\* timestamps, the empty series and an unsorted one
TestInputs ==
    {Run(a, b) : a \in 1..MaxRunT, b \in 0..MaxRunT} \cup {<<2, 1>>}

\* series handed to score and to update_predict_single: every series of one
\* time point, and one of two
ShortInputs == {<<t>> : t \in Timestamps} \cup {<<2, 3>>}

\* y_test as update_predict sees it before its loop, through check_y: a
\* well-formed series, the empty one and one with a duplicated timestamp
EntryInputs == {<<1>>, <<>>, <<1, 1>>}

\* the fh of a splitter: well-formed horizons and an ill-formed one
CvFhInputs == {<<1>>, <<1, 2>>, <<0>>}

\* cv arguments: None (given = FALSE: the default splitter over self.fh with
\* step_length 1, whose window_length base.py does not fix) or a splitter
CvInputs ==
    {[given |-> FALSE, fh |-> NoneSeq, window_length |-> w, step_length |-> 1] :
        w \in 1..MaxWin}
    \cup [given : {TRUE}, fh : CvFhInputs, window_length : 1..MaxWin, step_length : 1..MaxStep]

\* the arguments of update_predict; X_test and return_pred_int are refused
\* whatever the other arguments are
UpdatePredictArgs(Ys) ==
    [y_test : Ys, cv : CvInputs, X_test : {FALSE}, return_pred_int : {FALSE}]
    \cup [y_test : {<<MaxRunT>>},
          cv : {c \in CvInputs : c.window_length = 1 /\ c.step_length = 1},
          X_test : {TRUE}, return_pred_int : {FALSE}]
    \cup [y_test : {<<MaxRunT>>},
          cv : {c \in CvInputs : c.window_length = 1 /\ c.step_length = 1},
          X_test : {FALSE}, return_pred_int : {TRUE}]

\* the arguments of update_predict as it sees them before its loop, where
\* window_length and step_length are not looked at
EntryArgs ==
    {a \in UpdatePredictArgs(EntryInputs) :
        a.cv.window_length = 1 /\ a.cv.step_length = 1}

\* point forecasts handed to compute_pred_int: over one and two time points
PointForecasts == {<<5>>, <<2, 7>>}

\* error series on the index of a forecast over n time points; negative
\* errors included
ErrorSeries(n) == [1..n -> (0 - MaxErr)..MaxErr]

\* what compute_pred_errors returns: one pd.Series (series = TRUE, val a
\* list holding it) or a list of them, the empty list included
ErrorsInputs(n) ==
    [series : {TRUE}, val : {<<e>> : e \in ErrorSeries(n)}]
    \cup [series : {FALSE}, val : SeqsUpTo(ErrorSeries(n), MaxLevels)]

----------------------------------------------------------------------------
(* Results of a call: the state it leaves, the exception it raised and    *)
(* whether it warned.  An exception keeps the state reached when raised.   *)

Ok(st) == [st |-> st, err |-> "none", warned |-> FALSE]
Raise(st, e) == [st |-> st, err |-> e, warned |-> FALSE]

----------------------------------------------------------------------------
(* Collaborators outside base.py *)

\* pandas Index.is_monotonic: monotonic increasing, equal neighbours allowed
is_monotonic(idx) == \A i \in 1..(Len(idx) - 1) : idx[i] <= idx[i + 1]

IsStrictlyIncreasing(idx) == \A i \in 1..(Len(idx) - 1) : idx[i] < idx[i + 1]

\* check_y: a non-empty series, time-indexed without duplicate timestamps
check_y(y) == Len(y) >= 1 /\ IsStrictlyIncreasing(y)

\* check_fh: non-empty, strictly increasing, positive integers
check_fh(f) == Len(f) >= 1 /\ IsStrictlyIncreasing(f) /\ \A i \in DOMAIN f : f[i] >= 1

\* np.array_equal on one-dimensional arrays
array_equal(a, b) == Len(a) = Len(b) /\ \A i \in DOMAIN a : a[i] = b[i]

----------------------------------------------------------------------------
(* _BaseTemporalEstimator *)

\* _check_is_fitted that lets every instance pass
_check_is_fitted_pass(st) == Ok(st)

_check_is_fitted(st) == IF ~st.is_fitted THEN Raise(st, "NotFittedError") ELSE Ok(st)

\* _set_now that assigns self._now before it looks the time point up
_set_now_assign_first(st, t) ==
    IF st.oh = NoneSeq THEN Raise(st, "AttributeError")
    ELSE IF t = NoneTime
         THEN Ok([st EXCEPT !.now = st.oh[Len(st.oh)]])
         ELSE IF t \notin Range(st.oh)
              THEN Raise([st EXCEPT !.now = t], "NotInHorizonError")
              ELSE Ok([st EXCEPT !.now = t])

\* _set_now that leaves a now that is already set alone
_set_now_keep(st, t) ==
    IF st.oh = NoneSeq THEN Raise(st, "AttributeError")
    ELSE IF t = NoneTime
         THEN Ok([st EXCEPT !.now = IF st.now = NoneTime THEN st.oh[Len(st.oh)] ELSE st.now])
         ELSE IF t \notin Range(st.oh)
              THEN Raise(st, "NotInHorizonError")
              ELSE Ok([st EXCEPT !.now = t])

_set_now(st, t) ==
    IF st.oh = NoneSeq THEN Raise(st, "AttributeError")
    ELSE IF t = NoneTime
         THEN Ok([st EXCEPT !.now = st.oh[Len(st.oh)]])
         ELSE IF t \notin Range(st.oh)
              THEN Raise(st, "NotInHorizonError")
              ELSE Ok([st EXCEPT !.now = t])

\* _set_oh that assigns self._oh before it checks the order
_set_oh_assign_first(st, y, X) ==
    IF X THEN Raise(st, "NotImplementedError")
    ELSE IF ~check_y(y) THEN Raise(st, "CheckYError")
    ELSE IF st.is_fitted
         THEN LET new_oh == st.oh \o y
              IN  IF ~is_monotonic(new_oh)
                  THEN Raise([st EXCEPT !.oh = new_oh], "OrderingError")
                  ELSE _set_now([st EXCEPT !.oh = new_oh], NoneTime)
         ELSE _set_now([st EXCEPT !.oh = y], NoneTime)

_set_oh(st, y, X) ==
    IF X THEN Raise(st, "NotImplementedError")
    ELSE IF ~check_y(y) THEN Raise(st, "CheckYError")
    ELSE IF st.is_fitted
         THEN LET new_oh == st.oh \o y
              IN  IF ~is_monotonic(new_oh)
                  THEN Raise(st, "OrderingError")
                  ELSE _set_now([st EXCEPT !.oh = new_oh], NoneTime)
         ELSE _set_now([st EXCEPT !.oh = y], NoneTime)

----------------------------------------------------------------------------
(* _BaseForecasterOptionalFHinFit / _BaseForecasterRequiredFHinFit *)

\* _set_fh with the assignment of self._fh outside the else branch
_set_fh_optional_dedent(st, f) ==
    IF f = NoneSeq
    THEN IF st.is_fitted /\ st.fh = NoneSeq
         THEN Raise(st, "ConfigurationError")
         ELSE Ok([st EXCEPT !.fh = f])
    ELSE IF ~check_fh(f) THEN Raise(st, "CheckFhError")
         ELSE [st |-> [st EXCEPT !.fh = f],
               err |-> "none",
               warned |-> st.is_fitted /\ st.fh # NoneSeq /\ ~array_equal(f, st.fh)]

\* _set_fh without the test that an fh is already there
_set_fh_optional_warn_unset(st, f) ==
    IF f = NoneSeq
    THEN IF st.is_fitted /\ st.fh = NoneSeq
         THEN Raise(st, "ConfigurationError")
         ELSE Ok(st)
    ELSE IF ~check_fh(f) THEN Raise(st, "CheckFhError")
         ELSE [st |-> [st EXCEPT !.fh = f],
               err |-> "none",
               warned |-> st.is_fitted /\ ~array_equal(f, st.fh)]

_set_fh_optional(st, f) ==
    IF f = NoneSeq
    THEN IF st.is_fitted /\ st.fh = NoneSeq
         THEN Raise(st, "ConfigurationError")
         ELSE Ok(st)
    ELSE IF ~check_fh(f) THEN Raise(st, "CheckFhError")
         ELSE [st |-> [st EXCEPT !.fh = f],
               err |-> "none",
               warned |-> st.is_fitted /\ st.fh # NoneSeq /\ ~array_equal(f, st.fh)]

\* _set_fh that before fit keeps an fh that is already stored
_set_fh_required_keep_first(st, f) ==
    IF f = NoneSeq
    THEN IF st.is_fitted THEN Ok(st) ELSE Raise(st, "ConfigurationError")
    ELSE IF ~check_fh(f) THEN Raise(st, "CheckFhError")
         ELSE IF st.is_fitted
              THEN IF ~array_equal(f, st.fh)
                   THEN Raise(st, "ConfigurationError")
                   ELSE Ok(st)
              ELSE Ok([st EXCEPT !.fh = IF st.fh = NoneSeq THEN f ELSE st.fh])

\* _set_fh that takes a different fh after fit, as the optional variant does
_set_fh_required_overwrite(st, f) ==
    IF f = NoneSeq
    THEN IF st.is_fitted THEN Ok(st) ELSE Raise(st, "ConfigurationError")
    ELSE IF ~check_fh(f) THEN Raise(st, "CheckFhError")
         ELSE Ok([st EXCEPT !.fh = f])

\* _set_fh that lets a missing fh pass before fit
_set_fh_required_lenient(st, f) ==
    IF f = NoneSeq
    THEN Ok(st)
    ELSE IF ~check_fh(f) THEN Raise(st, "CheckFhError")
         ELSE IF st.is_fitted
              THEN IF ~array_equal(f, st.fh)
                   THEN Raise(st, "ConfigurationError")
                   ELSE Ok(st)
              ELSE Ok([st EXCEPT !.fh = f])

_set_fh_required(st, f) ==
    IF f = NoneSeq
    THEN IF st.is_fitted THEN Ok(st) ELSE Raise(st, "ConfigurationError")
    ELSE IF ~check_fh(f) THEN Raise(st, "CheckFhError")
         ELSE IF st.is_fitted
              THEN IF ~array_equal(f, st.fh)
                   THEN Raise(st, "ConfigurationError")
                   ELSE Ok(st)
              ELSE Ok([st EXCEPT !.fh = f])

\* self._set_fh: dispatch on the class of the instance
_set_fh(st, f) ==
    IF st.variant = "optional" THEN _set_fh_optional(st, f) ELSE _set_fh_required(st, f)

\* _get_absolute_fh: self.now + self.fh
_get_absolute_fh(st) == [i \in DOMAIN st.fh |-> st.now + st.fh[i]]

----------------------------------------------------------------------------
(* The operations every concrete forecaster supplies *)

\* sequencing: the outcome of a statement that raised, or else the outcome
\* q of the statement that follows it
Then(r, q) == IF r.err # "none" THEN r ELSE [q EXCEPT !.warned = r.warned \/ q.warned]

\* fit: set the observation horizon, apply the fh policy, set the flag
fit(st, y, f, X) ==
    LET r1 == _set_oh(st, y, X)
        r2 == Then(r1, _set_fh(r1.st, f))
    IN  Then(r2, Ok([r2.st EXCEPT !.is_fitted = TRUE]))

\* update: extend the observation horizon, re-validate fh
update(st, y, X) ==
    LET r1 == _check_is_fitted(st)
        r2 == Then(r1, _set_oh(r1.st, y, X))
    IN  Then(r2, _set_fh(r2.st, NoneSeq))

\* predict: needs the flag, applies the fh policy to its fh argument
predict(st, f) ==
    LET r1 == _check_is_fitted(st)
    IN  Then(r1, _set_fh(r1.st, f))

\* smape_loss: the metric needs y_test on the time points of the forecast
smape_loss(y_test, y_pred) == IF array_equal(y_test, y_pred) THEN "none" ELSE "MetricError"

\* score: smape_loss(y_test, self.predict(fh=fh, X=X)); predict runs first
score(st, y_test, f) ==
    LET r1 == predict(st, f)
    IN  IF r1.err # "none" THEN r1
        ELSE LET e == smape_loss(y_test, _get_absolute_fh(r1.st))
             IN  IF e = "none" THEN r1 ELSE [r1 EXCEPT !.err = e]

\* update_predict_single: refuse X, then update, then predict
update_predict_single(st, y_new, f, X) ==
    IF X THEN Raise(st, "NotImplementedError")
    ELSE LET r1 == update(st, y_new, X)
         IN  Then(r1, predict(r1.st, f))

\* compute_pred_int that puts the smaller bound in lower
compute_pred_int_sorted(y_pred, errors) ==
    LET errs == errors.val
        pred_int == [i \in DOMAIN errs |->
                        [lower |-> [j \in DOMAIN y_pred |->
                                       Min(y_pred[j] - errs[i][j], y_pred[j] + errs[i][j])],
                         upper |-> [j \in DOMAIN y_pred |->
                                       Max(y_pred[j] - errs[i][j], y_pred[j] + errs[i][j])]]]
    IN  IF Len(pred_int) = 1
        THEN [shape |-> "frame", frames |-> pred_int]
        ELSE [shape |-> "list", frames |-> pred_int]

\* compute_pred_int: errors is what compute_pred_errors returned; a single
\* series is wrapped into a list (errors.val holds the list either way); the
\* result is one data frame (shape "frame", held in frames[1]) or a list
compute_pred_int(y_pred, errors) ==
    LET errs == errors.val
        pred_int == [i \in DOMAIN errs |->
                        [lower |-> [j \in DOMAIN y_pred |-> y_pred[j] - errs[i][j]],
                         upper |-> [j \in DOMAIN y_pred |-> y_pred[j] + errs[i][j]]]]
    IN  IF Len(pred_int) = 1
        THEN [shape |-> "frame", frames |-> pred_int]
        ELSE [shape |-> "list", frames |-> pred_int]

----------------------------------------------------------------------------
(* State and calls *)

St == [variant |-> variant, oh |-> oh, now |-> now, is_fitted |-> is_fitted, fh |-> fh]

Idle == [pc |-> "idle"]

\* compute_pred_int has not been called
NoCall == [called |-> FALSE]

Init ==
    /\ variant \in {"optional", "required"}
    /\ oh = NoneSeq
    /\ now = NoneTime
    /\ is_fitted = FALSE
    /\ fh = NoneSeq
    /\ last = [op |-> "init", err |-> "none", warned |-> FALSE, y |-> <<>>, pre |-> St]
    /\ up = Idle
    /\ n_up = 0
    /\ pi = NoCall
    /\ fit_fh = NoneSeq

Commit(st) ==
    /\ oh' = st.oh
    /\ now' = st.now
    /\ is_fitted' = st.is_fitted
    /\ fh' = st.fh
    /\ UNCHANGED variant

\* what the caller saw of the call: its outcome, the series it handed over
\* when the call accepted it, and the state the call started in
Record(op, r, y) ==
    last' = [op |-> op, err |-> r.err, warned |-> r.warned,
             y |-> IF r.err = "none" THEN y ELSE <<>>, pre |-> St]

Fit(Ys) ==
    /\ up.pc = "idle"
    /\ ~is_fitted
    /\ \E a \in SeriesArgs(Ys), f \in FhInputs :
        LET r == fit(St, a.y, f, a.X)
        IN  /\ Commit(r.st) /\ Record("fit", r, a.y)
            /\ fit_fh' = IF variant = "required" /\ r.st.is_fitted THEN f ELSE fit_fh
    /\ UNCHANGED <<up, n_up, pi>>

Update ==
    /\ up.pc = "idle"
    /\ \E a \in SeriesArgs(SeriesInputs) :
        LET r == update(St, a.y, a.X)
        IN  /\ Len(r.st.oh) <= MaxOhLen
            /\ Commit(r.st) /\ Record("update", r, a.y)
    /\ UNCHANGED <<up, n_up, pi, fit_fh>>

\* self._set_oh(y, X) called on its own
SetOh ==
    /\ up.pc = "idle"
    /\ \E a \in SeriesArgs(SeriesInputs) :
        LET r == _set_oh(St, a.y, a.X)
        IN  /\ Len(r.st.oh) <= MaxOhLen
            /\ Commit(r.st) /\ Record("_set_oh", r, a.y)
    /\ UNCHANGED <<up, n_up, pi, fit_fh>>

\* self._set_now(now) with an explicit time point
PinNow ==
    /\ up.pc = "idle"
    /\ \E t \in Timestamps :
        LET r == _set_now(St, t)
        IN  Commit(r.st) /\ Record("_set_now", r, <<>>)
    /\ UNCHANGED <<up, n_up, pi, fit_fh>>

\* self._set_fh(fh) called on its own, as plot does
SetFh ==
    /\ up.pc = "idle"
    /\ \E f \in FhInputs :
        LET r == _set_fh(St, f)
        IN  Commit(r.st) /\ Record("_set_fh", r, <<>>)
    /\ UNCHANGED <<up, n_up, pi, fit_fh>>

Predict ==
    /\ up.pc = "idle"
    /\ \E f \in FhInputs :
        LET r == predict(St, f)
        IN  Commit(r.st) /\ Record("predict", r, <<>>)
    /\ UNCHANGED <<up, n_up, pi, fit_fh>>

Score ==
    /\ up.pc = "idle"
    /\ \E y \in ShortInputs, f \in FhInputs :
        LET r == score(St, y, f)
        IN  Commit(r.st) /\ Record("score", r, <<>>)
    /\ UNCHANGED <<up, n_up, pi, fit_fh>>

UpdatePredictSingle ==
    /\ up.pc = "idle"
    /\ \E a \in SeriesArgs(ShortInputs), f \in FhInputs :
        LET r == update_predict_single(St, a.y, f, a.X)
        IN  /\ Len(r.st.oh) <= MaxOhLen
            /\ Commit(r.st) /\ Record("update_predict_single", r, a.y)
    /\ UNCHANGED <<up, n_up, pi, fit_fh>>

\* compute_pred_int reads nothing but its arguments, so the specification
\* follows one call of it
ComputePredInt ==
    /\ pi = NoCall
    /\ \E y_pred \in PointForecasts :
        \E errors \in ErrorsInputs(Len(y_pred)) :
            pi' = [called |-> TRUE, y_pred |-> y_pred, errors |-> errors,
                   result |-> compute_pred_int(y_pred, errors)]
    /\ UNCHANGED <<variant, oh, now, is_fitted, fh, last, up, n_up, fit_fh>>

----------------------------------------------------------------------------
(* update_predict: the rolling-origin loop *)

\* Python's seq[-m:] for any integer m (seq[-0:] is the whole of seq)
PyTail(seq, m) ==
    LET n == Len(seq)
        start == IF m > 0 THEN Max(n - m, 0) ELSE Min(0 - m, n)
    IN  SubSeq(seq, start + 1, n)

\* SlidingWindowSplitter.split: the windows of window_length time points
\* that start every step_length points of time_index
split(time_index, window_length, step_length) ==
    LET n == Len(time_index)
        count == IF n < window_length THEN 0 ELSE ((n - window_length) \div step_length) + 1
    IN  [k \in 1..count |->
            SubSeq(time_index, (k - 1) * step_length + 1, (k - 1) * step_length + window_length)]

\* _iter that compares window_length with the combined horizon
_iter_check_combined(st, y, cv) ==
    IF cv.window_length > Len(st.oh \o y)
    THEN [err |-> "PreconditionError", news |-> <<>>]
    ELSE LET new_obs_horizon == st.oh \o y
             time_index == PyTail(new_obs_horizon, Len(y) + cv.window_length - cv.step_length)
             windows == split(time_index, cv.window_length, cv.step_length)
         IN  [err |-> "none",
              news |-> [k \in DOMAIN windows |-> PyTail(windows[k], cv.step_length)]]

\* _iter whose trailing slice is not shortened by step_length
_iter_long_slice(st, y, cv) ==
    IF cv.window_length > Len(st.oh)
    THEN [err |-> "PreconditionError", news |-> <<>>]
    ELSE LET new_obs_horizon == st.oh \o y
             time_index == PyTail(new_obs_horizon, Len(y) + cv.window_length)
             windows == split(time_index, cv.window_length, cv.step_length)
         IN  [err |-> "none",
              news |-> [k \in DOMAIN windows |-> PyTail(windows[k], cv.step_length)]]

\* _iter: everything the generator yields, or the error of its first step
_iter(st, y, cv) ==
    IF cv.window_length > Len(st.oh)
    THEN [err |-> "PreconditionError", news |-> <<>>]
    ELSE LET new_obs_horizon == st.oh \o y
             time_index == PyTail(new_obs_horizon, Len(y) + cv.window_length - cv.step_length)
             windows == split(time_index, cv.window_length, cv.step_length)
         IN  [err |-> "none",
              news |-> [k \in DOMAIN windows |-> PyTail(windows[k], cv.step_length)]]

\* update_predict that refuses X_test and return_pred_int only after it has
\* looked at y_test and cv
update_predict_enter_late_check(st, y_test, cv, X_test, return_pred_int) ==
    IF ~check_y(y_test) THEN Raise(st, "CheckYError")
    ELSE LET r1 == IF cv.given THEN _set_fh(st, cv.fh) ELSE Ok(st)
         IN  IF r1.err # "none" THEN r1
             ELSE IF X_test \/ return_pred_int THEN Raise(r1.st, "NotImplementedError")
             ELSE Then(r1, predict(r1.st, NoneSeq))

\* update_predict that checks a given cv but leaves its fh alone
update_predict_enter_skip_cv_fh(st, y_test, cv, X_test, return_pred_int) ==
    IF X_test THEN Raise(st, "NotImplementedError")
    ELSE IF return_pred_int THEN Raise(st, "NotImplementedError")
    ELSE IF ~check_y(y_test) THEN Raise(st, "CheckYError")
    ELSE predict(st, NoneSeq)

\* update_predict up to and including the first prediction
update_predict_enter(st, y_test, cv, X_test, return_pred_int) ==
    IF X_test THEN Raise(st, "NotImplementedError")
    ELSE IF return_pred_int THEN Raise(st, "NotImplementedError")
    ELSE IF ~check_y(y_test) THEN Raise(st, "CheckYError")
    ELSE LET r1 == IF cv.given THEN _set_fh(st, cv.fh) ELSE Ok(st)
         IN  Then(r1, predict(r1.st, NoneSeq))

\* a call of update_predict that raises before its loop: the exception is
\* all the caller gets; what the call did before raising stays
UpdatePredictRaises ==
    /\ up.pc = "idle"
    /\ \E a \in EntryArgs :
        LET r == update_predict_enter(St, a.y_test, a.cv, a.X_test, a.return_pred_int)
        IN  /\ r.err # "none"
            /\ Commit(r.st)
            /\ last' = [op |-> "update_predict", err |-> r.err, warned |-> r.warned,
                        y |-> <<>>, pre |-> St]
    /\ UNCHANGED <<up, n_up, pi, fit_fh>>

\* the output format with the table chosen from one offset on
update_predict_format_from_one(st, y_preds, pred_timepoints) ==
    IF Len(st.fh) >= 1
    THEN [kind |-> "table", columns |-> pred_timepoints, data |-> y_preds]
    ELSE [kind |-> "series", columns |-> <<>>,
          data |-> [i \in DOMAIN y_preds |-> y_preds[i][1]]]

\* the output format: a table with one column per prediction, or one series
update_predict_format(st, y_preds, pred_timepoints) ==
    IF Len(st.fh) > 1
    THEN [kind |-> "table", columns |-> pred_timepoints, data |-> y_preds]
    ELSE [kind |-> "series", columns |-> <<>>,
          data |-> [i \in DOMAIN y_preds |-> y_preds[i][1]]]

NoResult == [kind |-> "none", columns |-> <<>>, data |-> <<>>]

\* the activation before its first prediction: nothing predicted, nothing
\* asked of the generator
Entered(st) ==
    [pc |-> "loop", err |-> "none", warned |-> FALSE, pre |-> st,
     y_test |-> <<>>, cv |-> [given |-> FALSE, fh |-> NoneSeq, window_length |-> 1, step_length |-> 1],
     gen |-> "created", news |-> <<>>, new |-> <<>>, y_preds |-> <<>>,
     pred_timepoints |-> <<>>, updates |-> <<>>, result |-> NoResult]

UpdatePredict(Ys) ==
    /\ up.pc = "idle"
    /\ n_up < MaxCalls
    /\ n_up' = n_up + 1
    /\ \E a \in UpdatePredictArgs(Ys) :
        /\ Len(oh) + Len(a.y_test) <= MaxRunT
        /\ LET r == update_predict_enter(St, a.y_test, a.cv, a.X_test, a.return_pred_int)
               ok == r.err = "none"
               y_test == a.y_test
               cv == a.cv
           IN  /\ Commit(r.st)
               /\ up' = IF ok
                         THEN [pc |-> "loop",
                               err |-> "none",
                               warned |-> r.warned,
                               pre |-> St,
                               y_test |-> y_test,
                               cv |-> cv,
                               gen |-> "created",
                               news |-> <<>>,
                               new |-> <<>>,
                               y_preds |-> <<_get_absolute_fh(r.st)>>,
                               pred_timepoints |-> <<r.st.now>>,
                               updates |-> <<>>,
                               result |-> NoResult]
                         ELSE [Entered(St) EXCEPT !.pc = "failed", !.err = r.err,
                                                  !.warned = r.warned]
    /\ last' = [op |-> "update_predict", err |-> "pending", warned |-> FALSE, y |-> <<>>,
                pre |-> St]
    /\ UNCHANGED <<pi, fit_fh>>

\* the for statement asks the generator for its next value
UpdatePredictNext ==
    /\ up.pc = "loop"
    /\ LET g == IF up.gen = "created"
                THEN _iter(St, up.y_test, up.cv)
                ELSE [err |-> "none", news |-> up.news]
       IN  up' = IF g.err # "none"
                 THEN [up EXCEPT !.pc = "failed", !.err = g.err]
                 ELSE IF g.news = <<>>
                      THEN [up EXCEPT !.pc = "format", !.gen = "exhausted", !.news = <<>>]
                      ELSE [up EXCEPT !.pc = "body", !.gen = "running",
                                      !.new = Head(g.news), !.news = Tail(g.news)]
    /\ UNCHANGED <<variant, oh, now, is_fitted, fh, last, n_up, pi, fit_fh>>

\* the loop body: update with y_test[new], then predict
UpdatePredictBody ==
    /\ up.pc = "body"
    /\ IF ~(Range(up.new) \subseteq Range(up.y_test))
       THEN /\ up' = [up EXCEPT !.pc = "failed", !.err = "KeyError"]
            /\ UNCHANGED <<variant, oh, now, is_fitted, fh>>
       ELSE LET r1 == update(St, up.new, FALSE)
                r2 == predict(r1.st, NoneSeq)
            IN  IF r1.err # "none"
                THEN /\ Commit(r1.st)
                     /\ up' = [up EXCEPT !.pc = "failed", !.err = r1.err]
                ELSE IF r2.err # "none"
                     THEN /\ Commit(r2.st)
                          /\ up' = [up EXCEPT !.pc = "failed", !.err = r2.err,
                                              !.updates = Append(@, up.new)]
                     ELSE /\ Commit(r2.st)
                          /\ up' = [up EXCEPT !.pc = "loop",
                                              !.updates = Append(@, up.new),
                                              !.y_preds = Append(@, _get_absolute_fh(r2.st)),
                                              !.pred_timepoints = Append(@, r2.st.now)]
    /\ UNCHANGED <<last, n_up, pi, fit_fh>>

UpdatePredictFormat ==
    /\ up.pc = "format"
    /\ up' = [up EXCEPT !.pc = "done",
                        !.result = update_predict_format(St, up.y_preds, up.pred_timepoints)]
    /\ UNCHANGED <<variant, oh, now, is_fitted, fh, last, n_up, pi, fit_fh>>

\* update_predict returns or raises to its caller
UpdatePredictReturn ==
    /\ up.pc \in {"done", "failed"}
    /\ last' = [op |-> "update_predict", err |-> up.err, warned |-> up.warned, y |-> <<>>,
                pre |-> up.pre]
    /\ up' = Idle
    /\ UNCHANGED <<variant, oh, now, is_fitted, fh, n_up, pi, fit_fh>>

Next ==
    \/ Fit(SeriesInputs)
    \/ Update
    \/ SetOh
    \/ PinNow
    \/ SetFh
    \/ Predict
    \/ Score
    \/ UpdatePredictSingle
    \/ UpdatePredictRaises

Spec == Init /\ [][Next]_vars

\* rolling-origin evaluation of a forecaster fitted on a run
NextUP ==
    \/ Fit(RunInputs)
    \/ PinNow
    \/ UpdatePredict(TestInputs)
    \/ UpdatePredictNext
    \/ UpdatePredictBody
    \/ UpdatePredictFormat
    \/ UpdatePredictReturn

SpecUP == Init /\ [][NextUP]_vars

\* one fit followed by updates
NextFU ==
    \/ Fit(SeriesInputs)
    \/ Update

SpecFU == Init /\ [][NextFU]_vars

\* prediction intervals from point forecasts and errors
NextPI == ComputePredInt

SpecPI == Init /\ [][NextPI]_vars

----------------------------------------------------------------------------
(* Claims *)

Latest(s) == s[Len(s)]

\* C1: after one fit and any sequence of updates the timestamps of the
\* observation horizon strictly increase, and no update is accepted whose
\* earliest timestamp is at or before the horizon's latest timestamp.
C1_HorizonStrictlyIncreasing ==
    /\ IsStrictlyIncreasing(oh)
    /\ (last.op = "update" /\ last.err = "none") => last.y[1] > Latest(last.pre.oh)

\* C2: a rejected _set_oh on a fitted forecaster leaves the observation
\* horizon and now as they were; an accepted one leaves the horizon as the
\* old one followed by exactly the series handed over.
C2_SetOhRejectsWhole ==
    (last.op = "_set_oh" /\ last.pre.is_fitted) =>
        IF last.err # "none"
        THEN oh = last.pre.oh /\ now = last.pre.now
        ELSE oh = last.pre.oh \o last.y

\* a rejected extension of a horizon whose now was pinned before its end
C2_Witness ==
    /\ last.op = "_set_oh"
    /\ last.pre.is_fitted
    /\ last.err = "OrderingError"
    /\ Len(oh) >= 2
    /\ now # Latest(oh)

\* C3: once the horizon is set now is one of its timestamps, and right
\* after every successful fit, update or _set_oh now is its latest timestamp.
C3_NowInHorizon ==
    /\ oh # NoneSeq => now \in Range(oh)
    /\ (last.op \in {"fit", "update", "_set_oh"} /\ last.err = "none") => now = Latest(oh)

\* an update accepted while now was pinned before the end of the horizon
C3_Witness ==
    /\ last.op = "update"
    /\ last.err = "none"
    /\ last.pre.now # Latest(last.pre.oh)
    /\ now = Latest(oh)

\* C4: required-in-fit, fitted: no call changes the stored fh; _set_fh with
\* None or with the stored fh succeeds, with another well-formed fh it fails
\* with the configuration error.
C4_RequiredFhFixedOnceFitted ==
    /\ (variant = "required" /\ last.pre.is_fitted) => fh = last.pre.fh
    /\ (variant = "required" /\ is_fitted) =>
           \A f \in FhInputs :
               LET r == _set_fh(St, f)
               IN  /\ r.st.fh = fh
                   /\ f = NoneSeq => r.err = "none"
                   /\ f = fh => r.err = "none"
                   /\ (f \in FhValid /\ f # fh) => r.err = "ConfigurationError"

\* a different fh refused after fit
C4_Witness ==
    /\ variant = "required"
    /\ last.op = "_set_fh"
    /\ last.pre.is_fitted
    /\ last.err = "ConfigurationError"
    /\ fh # NoneSeq

\* C5: required-in-fit, not fitted: _set_fh with None fails with the
\* configuration error and leaves fh as it was (unset when it was unset);
\* with a well-formed fh it stores that fh.
C5_RequiredFhBeforeFit ==
    /\ (variant = "required" /\ ~is_fitted) =>
           \A f \in FhInputs :
               LET r == _set_fh(St, f)
               IN  /\ f = NoneSeq => (r.err = "ConfigurationError" /\ r.st.fh = fh)
                   /\ f \in FhValid => (r.err = "none" /\ r.st.fh = f)
    /\ (variant = "required" /\ last.op = "_set_fh" /\ ~last.pre.is_fitted
            /\ last.err = "ConfigurationError") => fh = last.pre.fh

\* a missing fh refused before fit, fh still unset
C5_Witness ==
    /\ variant = "required"
    /\ last.op = "_set_fh"
    /\ ~last.pre.is_fitted
    /\ last.err = "ConfigurationError"
    /\ fh = NoneSeq

\* C6: optional-in-fit: _set_fh with None never changes the stored fh and
\* fails, with the configuration error, exactly when the forecaster is
\* fitted and no fh is stored; no call unsets an fh that was stored.
C6_OptionalNoneKeepsFh ==
    /\ variant = "optional" =>
           LET r == _set_fh(St, NoneSeq)
           IN  /\ r.st.fh = fh
               /\ r.err = (IF is_fitted /\ fh = NoneSeq THEN "ConfigurationError" ELSE "none")
    /\ (variant = "optional" /\ last.pre.fh # NoneSeq) => fh # NoneSeq

\* fitted without an fh, and a call without an fh refused
C6_Witness ==
    /\ variant = "optional"
    /\ last.op = "_set_fh"
    /\ last.err = "ConfigurationError"
    /\ is_fitted
    /\ fh = NoneSeq

\* C7: optional-in-fit: _set_fh with a well-formed fh stores it; it warns
\* exactly when the forecaster is fitted, an fh was stored and the new one
\* differs; the same fh passed again does not warn.
C7_OptionalOverwriteWarns ==
    /\ variant = "optional" =>
           \A f \in FhValid :
               LET r == _set_fh(St, f)
               IN  /\ r.err = "none"
                   /\ r.st.fh = f
                   /\ r.warned = (is_fitted /\ fh # NoneSeq /\ f # fh)
                   /\ ~_set_fh(r.st, f).warned
    /\ (variant = "optional" /\ last.op = "_set_fh" /\ last.warned) =>
           (last.pre.is_fitted /\ last.pre.fh # NoneSeq /\ fh # last.pre.fh)

\* an fh replaced after fit, with the warning
C7_Witness ==
    /\ variant = "optional"
    /\ last.op = "_set_fh"
    /\ last.err = "none"
    /\ last.warned
    /\ fh # last.pre.fh

\* update_predict has made its first prediction
Predicted == up.pc # "idle" /\ Len(up.y_preds) >= 1

\* y_test holds only time points after the horizon the call started with
HeldOut == Len(up.y_test) >= 1 /\ up.y_test[1] > Latest(up.pre.oh)

\* C8: with window_length greater than the length of the observation
\* horizon update_predict fails with the precondition error when it first
\* asks for a window: no update has been made and the horizon and now are
\* those the call started with.
C8_WindowTooLongFailsFirst ==
    (Predicted /\ up.cv.window_length > Len(up.pre.oh)) =>
        /\ up.pc \in {"loop", "failed"}
        /\ up.pc = "failed" => up.err = "PreconditionError"
        /\ up.updates = <<>>
        /\ Len(up.y_preds) = 1
        /\ oh = up.pre.oh
        /\ now = up.pre.now

\* the precondition error on a call with new time points
C8_Witness ==
    /\ up.pc = "failed"
    /\ up.err = "PreconditionError"
    /\ HeldOut
    /\ up.cv.window_length > Len(oh)

\* the loop body is about to call update with y_test[new]
UpdateIssued == up.pc = "body" /\ Range(up.new) \subseteq Range(up.y_test)

\* C9: for every step_length and every window_length within the horizon,
\* the k-th update of update_predict gets exactly step_length time points:
\* the k-th step_length time points of y_test.
C9_ChunksAreStepSlices ==
    (UpdateIssued /\ HeldOut) =>
        LET k == Len(up.updates)
            s == up.cv.step_length
        IN  /\ Len(up.new) = s
            /\ k * s + s <= Len(up.y_test)
            /\ \A i \in 1..s : up.new[i] = up.y_test[k * s + i]

\* C9 where step_length is at most window_length: there it holds
C9_ChunksAreStepSlicesWithinWindow ==
    (UpdateIssued /\ HeldOut /\ up.cv.step_length <= up.cv.window_length) =>
        LET k == Len(up.updates)
            s == up.cv.step_length
        IN  /\ Len(up.new) = s
            /\ k * s + s <= Len(up.y_test)
            /\ \A i \in 1..s : up.new[i] = up.y_test[k * s + i]

\* the setting of C10: one offset, step 1, the window as long as the fitted
\* horizon, now at its end, y_test after it
C10_Setting ==
    /\ Predicted
    /\ Len(fh) = 1
    /\ up.cv.step_length = 1
    /\ up.cv.window_length = Len(up.pre.oh)
    /\ up.pre.now = Latest(up.pre.oh)
    /\ HeldOut

\* C10: in that setting update_predict never fails, and when it is done it
\* has made one update per time point of y_test, each with that one point,
\* and one prediction more, at the last fitted time point and then at each
\* time point of y_test.
C10_OneCyclePerPoint ==
    C10_Setting =>
        /\ up.pc # "failed"
        /\ up.pc = "done" =>
            /\ Len(up.updates) = Len(up.y_test)
            /\ \A k \in DOMAIN up.updates : up.updates[k] = <<up.y_test[k]>>
            /\ Len(up.y_preds) = Len(up.y_test) + 1
            /\ up.pred_timepoints = <<Latest(up.pre.oh)>> \o up.y_test

\* three cycles after the first prediction, on a horizon of two points
C10_Witness ==
    /\ C10_Setting
    /\ up.pc = "done"
    /\ Len(up.pre.oh) = 2
    /\ Len(up.y_test) = 3
    /\ Len(up.pred_timepoints) = 4

NeedFitted == {"predict", "update", "update_predict", "score"}

\* the flag is false until a fit succeeds, a successful fit sets it and no
\* call sets it back
FlagSetByFitOnly ==
    /\ (is_fitted /\ ~last.pre.is_fitted) => (last.op = "fit" /\ last.err = "none")
    /\ (last.op = "fit" /\ last.err = "none") => is_fitted
    /\ last.pre.is_fitted => is_fitted

\* C11 as stated: predict, update, update_predict and score called on a
\* forecaster that is not fitted fail with NotFittedError, whatever their
\* arguments; the flag is false until the first successful fit and is never
\* set back.
C11_UnfittedCallsFail ==
    /\ (last.op \in NeedFitted /\ ~last.pre.is_fitted) => last.err = "NotFittedError"
    /\ FlagSetByFitOnly

\* the error of update_predict on a forecaster that is not fitted
UnfittedError(a) ==
    IF a.X_test \/ a.return_pred_int THEN "NotImplementedError"
    ELSE IF ~check_y(a.y_test) THEN "CheckYError"
    ELSE IF a.cv.given /\ ~check_fh(a.cv.fh) THEN "CheckFhError"
    ELSE "NotFittedError"

\* C11 amended: predict, update and score called on a forecaster that is not
\* fitted fail with NotFittedError; update_predict fails with NotFittedError
\* when it is given no X_test, no return_pred_int, a well-formed y_test and
\* a cv that is absent or has a well-formed fh, and otherwise with the error
\* of the first of these it is given; the flag is false until the first
\* successful fit and is never set back.
C11_UnfittedCallsFailOnSupportedArguments ==
    /\ (last.op \in (NeedFitted \ {"update_predict"}) /\ ~last.pre.is_fitted) =>
           last.err = "NotFittedError"
    /\ (last.op = "update_predict" /\ ~last.pre.is_fitted) =>
           last.err \in {UnfittedError(a) : a \in EntryArgs}
    /\ ~is_fitted =>
           \A a \in EntryArgs :
               update_predict_enter(St, a.y_test, a.cv, a.X_test, a.return_pred_int).err
                   = UnfittedError(a)
    /\ FlagSetByFitOnly

\* update_predict refused for want of a fit, after it stored the fh of its cv
C11_Witness ==
    /\ last.op = "update_predict"
    /\ ~last.pre.is_fitted
    /\ last.err = "NotFittedError"
    /\ fh # last.pre.fh

\* C12: update_predict with an exogenous series or with return_pred_int
\* raises the not-supported error and has done nothing else: the horizon,
\* now and fh are as before, no fh was validated; update_predict_single
\* with an exogenous series raises it before its update.
C12_UnsupportedInputsFailFirst ==
    /\ \A a \in EntryArgs :
           (a.X_test \/ a.return_pred_int) =>
               update_predict_enter(St, a.y_test, a.cv, a.X_test, a.return_pred_int)
                   = Raise(St, "NotImplementedError")
    /\ \A y \in ShortInputs, f \in FhInputs :
           update_predict_single(St, y, f, TRUE) = Raise(St, "NotImplementedError")
    /\ (last.op \in {"update_predict", "update_predict_single"}
            /\ last.err = "NotImplementedError") =>
           (St = last.pre /\ ~last.warned)

\* update_predict refused on a fitted forecaster that could have predicted
C12_Witness ==
    /\ last.op = "update_predict"
    /\ last.err = "NotImplementedError"
    /\ last.pre.is_fitted
    /\ fh # NoneSeq

\* C13: for every error series and every index position compute_pred_int
\* returns lower = forecast - error and upper = forecast + error on the index
\* of the forecast, neither clamped nor swapped: upper >= lower where the
\* error is not negative, lower > upper where it is negative.
C13_BoundsAreForecastMinusPlusError ==
    pi.called =>
        /\ Len(pi.result.frames) = Len(pi.errors.val)
        /\ \A i \in DOMAIN pi.errors.val :
               LET e == pi.errors.val[i]
                   f == pi.result.frames[i]
               IN  /\ DOMAIN f.lower = DOMAIN pi.y_pred
                   /\ DOMAIN f.upper = DOMAIN pi.y_pred
                   /\ \A j \in DOMAIN pi.y_pred :
                          /\ f.lower[j] = pi.y_pred[j] - e[j]
                          /\ f.upper[j] = pi.y_pred[j] + e[j]
                          /\ e[j] >= 0 => f.upper[j] >= f.lower[j]
                          /\ e[j] < 0 => f.lower[j] > f.upper[j]

\* two error series, a negative error at the second time point of the first
C13_Witness ==
    /\ pi.called
    /\ Len(pi.errors.val) = 2
    /\ Len(pi.y_pred) = 2
    /\ pi.errors.val[1][2] < 0
    /\ pi.result.frames[1].lower[2] > pi.result.frames[1].upper[2]
    /\ pi.result.frames[2].lower[1] <= pi.result.frames[2].upper[1]

\* C14: the shape of the result of compute_pred_int mirrors the shape of
\* the errors: a bare error series gives one (lower, upper) pair, a
\* collection of k >= 1 error series (one series included) gives a list of
\* k pairs, the i-th from the i-th error series.
C14_ShapeMirrorsErrors ==
    pi.called =>
        /\ pi.errors.series => (pi.result.shape = "frame" /\ Len(pi.result.frames) = 1)
        /\ (~pi.errors.series /\ Len(pi.errors.val) >= 1) =>
               /\ pi.result.shape = "list"
               /\ Len(pi.result.frames) = Len(pi.errors.val)
               /\ \A i \in DOMAIN pi.errors.val :
                      \A j \in DOMAIN pi.y_pred :
                          /\ pi.result.frames[i].lower[j] = pi.y_pred[j] - pi.errors.val[i][j]
                          /\ pi.result.frames[i].upper[j] = pi.y_pred[j] + pi.errors.val[i][j]

\* C14 for collections of two or more error series: there it holds
C14_ShapeMirrorsErrorsFromTwo ==
    pi.called =>
        /\ pi.errors.series => (pi.result.shape = "frame" /\ Len(pi.result.frames) = 1)
        /\ (~pi.errors.series /\ Len(pi.errors.val) >= 2) =>
               /\ pi.result.shape = "list"
               /\ Len(pi.result.frames) = Len(pi.errors.val)
               /\ \A i \in DOMAIN pi.errors.val :
                      \A j \in DOMAIN pi.y_pred :
                          /\ pi.result.frames[i].lower[j] = pi.y_pred[j] - pi.errors.val[i][j]
                          /\ pi.result.frames[i].upper[j] = pi.y_pred[j] + pi.errors.val[i][j]

\* the time points of the chunks, one after the other
RECURSIVE Flatten(_)
Flatten(chunks) == IF chunks = <<>> THEN <<>> ELSE Head(chunks) \o Flatten(Tail(chunks))

\* now as each forecast of the call must have seen it: the now the call
\* started with, then the last time point of each chunk absorbed
NowsSeen == <<up.pre.now>> \o [k \in DOMAIN up.updates |-> Latest(up.updates[k])]

\* C15: the result update_predict assembles has one entry per forecast
\* made, the first one and one per update: with more than one offset in fh
\* a table with one column per forecast, labelled in order with the now of
\* each forecast; with one offset a flat sequence of the one-step forecasts
\* in the order they were made.
C15_ResultHasOneEntryPerForecast ==
    up.pc = "done" =>
        /\ Len(up.y_preds) = Len(up.updates) + 1
        /\ Len(fh) > 1 =>
               /\ up.result.kind = "table"
               /\ Len(up.result.columns) = Len(up.updates) + 1
               /\ up.result.columns = NowsSeen
               /\ up.result.data = [i \in DOMAIN NowsSeen |->
                                       [j \in DOMAIN fh |-> NowsSeen[i] + fh[j]]]
        /\ Len(fh) = 1 =>
               /\ up.result.kind = "series"
               /\ up.result.data = [i \in DOMAIN NowsSeen |-> NowsSeen[i] + fh[1]]

\* a table of three columns: the first forecast and two updates
C15_Witness ==
    /\ up.pc = "done"
    /\ Len(fh) = 2
    /\ up.result.kind = "table"
    /\ Len(up.result.columns) = 3
    /\ HeldOut

\* the order of events in update_predict but for the order of the recorded
\* nows: the first predict comes before any update and sees the horizon and
\* now the call started with; then each update is followed by one predict,
\* which sees now at the last time point of the chunk and the chunk in the
\* horizon; there is one predict more than there are updates
UpdatesAndPredictsAlternate ==
    /\ Predicted =>
           /\ Len(up.y_preds) = Len(up.updates) + 1
           /\ up.pred_timepoints = NowsSeen
           /\ oh = up.pre.oh \o Flatten(up.updates)
           /\ now = Latest(NowsSeen)
           /\ \A i \in DOMAIN up.y_preds :
                  up.y_preds[i] = [j \in DOMAIN fh |-> NowsSeen[i] + fh[j]]
    /\ UpdateIssued =>
           LET r1 == update(St, up.new, FALSE)
               r2 == predict(r1.st, NoneSeq)
           IN  r1.err = "none" =>
                   /\ r2.err = "none"
                   /\ r2.st.now = Latest(up.new)
                   /\ r2.st.oh = oh \o up.new

\* C16: in update_predict the first predict comes before any update and
\* sees the fitted state unchanged; then updates and predicts alternate,
\* each predict after one completed update whose effect it sees; there is
\* always one predict more than completed updates, and the recorded nows
\* strictly increase.
C16_EventsOrdered ==
    /\ UpdatesAndPredictsAlternate
    /\ Predicted => IsStrictlyIncreasing(up.pred_timepoints)

\* C16 with recorded nows that never decrease: that much holds
C16_EventsOrderedNowNotDecreasing ==
    /\ UpdatesAndPredictsAlternate
    /\ Predicted => is_monotonic(up.pred_timepoints)

\* an update of the loop raised: the call has made its first prediction and
\* has failed, neither in the generator nor in the lookup y_test[new]
UpdateFailed ==
    /\ Predicted
    /\ up.pc = "failed"
    /\ up.err \notin {"PreconditionError", "KeyError"}

\* the failure ends the call: no predict after the update that failed, no
\* result, and the forecaster as the last completed update left it (as the
\* call found it when none completed)
FailureLeavesLastCompletedUpdate ==
    UpdateFailed =>
        /\ Len(up.y_preds) = Len(up.updates) + 1
        /\ up.result = NoResult
        /\ oh = up.pre.oh \o Flatten(up.updates)
        /\ now = Latest(NowsSeen)
        /\ up.y_preds[1] = [j \in DOMAIN fh |-> up.pre.now + fh[j]]

\* C17: when an update in the loop of update_predict fails, the failure
\* leaves update_predict at once: no further update or predict, no result,
\* and the forecaster is in the consistent state the last completed update
\* produced: the horizon strictly increasing, now its latest time point
\* (unless the caller had pinned now and no update completed).
C17_UpdateFailurePropagates ==
    /\ FailureLeavesLastCompletedUpdate
    /\ UpdateFailed =>
           /\ IsStrictlyIncreasing(oh)
           /\ (up.updates # <<>> \/ up.pre.now = Latest(up.pre.oh)) => now = Latest(oh)

\* C17 for calls that start from a strictly increasing horizon: there it
\* holds
C17_UpdateFailurePropagatesFromIncreasing ==
    /\ FailureLeavesLastCompletedUpdate
    /\ (UpdateFailed /\ IsStrictlyIncreasing(up.pre.oh)) =>
           /\ IsStrictlyIncreasing(oh)
           /\ (up.updates # <<>> \/ up.pre.now = Latest(up.pre.oh)) => now = Latest(oh)

\* C18: _set_now with an explicit time point sets now to it when it is in
\* the observation horizon and otherwise fails and leaves now as it was;
\* either way the observation horizon is as it was.
C18_PinNowOnlyInHorizon ==
    /\ \A t \in Timestamps :
           LET r == _set_now(St, t)
           IN  /\ r.st.oh = oh
               /\ t \in Range(oh) => (r.err = "none" /\ r.st.now = t)
               /\ t \notin Range(oh) => (r.err # "none" /\ r.st.now = now)
    /\ last.op = "_set_now" =>
           /\ oh = last.pre.oh
           /\ last.err = "none" => now \in Range(oh)
           /\ last.err # "none" => now = last.pre.now

\* a time point outside the horizon refused while now was pinned before the
\* end of the horizon
C18_Witness ==
    /\ last.op = "_set_now"
    /\ last.err = "NotInHorizonError"
    /\ Len(oh) >= 2
    /\ now # Latest(oh)

\* the error of the first update of another update_predict with the same
\* y_test and cv, called in the current state ("none" when that update, or
\* anything before it, goes another way)
SecondRunFirstUpdate ==
    LET r == update_predict_enter(St, up.y_test, up.cv, FALSE, FALSE)
        g == _iter(r.st, up.y_test, up.cv)
    IN  IF r.err # "none" \/ g.err # "none" \/ g.news = <<>> THEN "none"
        ELSE IF ~(Range(g.news[1]) \subseteq Range(up.y_test)) THEN "none"
        ELSE update(r.st, g.news[1], FALSE).err

\* C19: update_predict does not put the forecaster back: after a run of k
\* update cycles over a y_test that lies after the horizon, the horizon
\* is the one the call started with followed by the k chunks, longer by
\* k * step_length, and now is the last time point absorbed; so with
\* k >= 1 a second update_predict with the same y_test fails with the
\* ordering error in its first update.
C19_NotRestoredAfterRun ==
    (up.pc = "done" /\ HeldOut) =>
        LET k == Len(up.updates)
        IN  /\ oh = up.pre.oh \o Flatten(up.updates)
            /\ Len(oh) = Len(up.pre.oh) + k * up.cv.step_length
            /\ k >= 1 => now = Latest(up.updates[k])
            /\ k >= 1 => SecondRunFirstUpdate = "OrderingError"

\* C19 where step_length is at most window_length and the run absorbed more
\* than one time point: there it holds
C19_NotRestoredAfterLongerRun ==
    (up.pc = "done" /\ HeldOut /\ up.cv.step_length <= up.cv.window_length) =>
        LET k == Len(up.updates)
        IN  /\ oh = up.pre.oh \o Flatten(up.updates)
            /\ Len(oh) = Len(up.pre.oh) + k * up.cv.step_length
            /\ k >= 1 => now = Latest(up.updates[k])
            /\ Len(Flatten(up.updates)) >= 2 => SecondRunFirstUpdate = "OrderingError"

\* the call got as far as its loop, or ended with its result
Running == up.pc \notin {"idle", "failed"} /\ Len(up.y_preds) >= 1

\* C20: the fh of a cv given to update_predict goes through the fh policy
\* before the first predict.  Required-in-fit: a cv whose fh differs from
\* the fitted fh makes the call fail with the configuration error before any
\* predict or update, with fh, horizon and now unchanged.  Optional-in-fit:
\* the fh of the cv replaces the stored fh and is the fh of every forecast
\* and of the output format.  Without a cv the stored fh is neither
\* validated again nor changed.
C20_CvFhGoesThroughPolicyFirst ==
    /\ (up.pc = "idle" /\ is_fitted) =>
           \A a \in EntryArgs :
               (~a.X_test /\ ~a.return_pred_int /\ check_y(a.y_test) /\ a.cv.given
                    /\ check_fh(a.cv.fh)) =>
                   LET r == update_predict_enter(St, a.y_test, a.cv, FALSE, FALSE)
                   IN  /\ (variant = "required" /\ a.cv.fh # fh) =>
                              r = Raise(St, "ConfigurationError")
                       /\ variant = "optional" =>
                              (r.err = "none" /\ r.st = [St EXCEPT !.fh = a.cv.fh])
    /\ (up.pc = "failed" /\ up.err = "ConfigurationError") =>
           (up.y_preds = <<>> /\ up.updates = <<>> /\ St = up.pre)
    /\ (Running /\ up.cv.given /\ variant = "optional") =>
           /\ fh = up.cv.fh
           /\ \A i \in DOMAIN up.y_preds : Len(up.y_preds[i]) = Len(up.cv.fh)
           /\ \A i \in DOMAIN up.y_preds :
                  \A j \in DOMAIN up.cv.fh :
                      up.y_preds[i][j] = up.pred_timepoints[i] + up.cv.fh[j]
           /\ up.pc = "done" =>
                  up.result.kind = (IF Len(up.cv.fh) > 1 THEN "table" ELSE "series")
    /\ up.pc = "idle" =>
           \A a \in EntryArgs :
               ~a.cv.given =>
                   LET r == update_predict_enter(St, a.y_test, a.cv, a.X_test,
                                                 a.return_pred_int)
                   IN  r.st.fh = fh /\ ~r.warned /\ r.err # "CheckFhError"
    /\ (Predicted /\ ~up.cv.given) => (fh = up.pre.fh /\ ~up.warned)

\* optional-in-fit: a cv with another fh than the fitted one, and the run
\* done on the fh of the cv
C20_Witness ==
    /\ variant = "optional"
    /\ up.pc = "done"
    /\ up.cv.given
    /\ up.pre.fh # NoneSeq
    /\ up.pre.fh # up.cv.fh
    /\ fh = up.cv.fh
    /\ up.warned
    /\ Len(up.updates) >= 1

\* C21: required-in-fit, with a fit that applies the fh policy before it
\* sets the flag: in every state a fitted forecaster has an fh, and that fh
\* is the one handed to the fit that set the flag.
C21_FittedFhIsTheFitFh ==
    (variant = "required" /\ is_fitted) =>
        /\ fh # NoneSeq
        /\ fit_fh # NoneSeq
        /\ fh = fit_fh

\* fitted with another fh than the one stored before the fit, and a call
\* with yet another fh refused since
C21_Witness ==
    /\ variant = "required"
    /\ is_fitted
    /\ fh = fit_fh
    /\ last.op \in {"_set_fh", "predict", "score", "update_predict"}
    /\ last.err = "ConfigurationError"
    /\ last.pre.is_fitted
====
